---------------------------- MODULE Spec2Model ----------------------------
(***************************************************************************)
(* Carillon.py: a text editor thread (main) and a playout thread (playout) *)
(* sharing one unsynchronised Python list, schedule.                       *)
(*                                                                         *)
(* Python strings are modelled as sequences of one-character strings, so   *)
(* that split, lower, endswith, isnumeric, int and str are computed the    *)
(* way Python computes them, over the characters U+0000..U+00FF.  A Python *)
(* list index k is the TLA+ index k+1.                                     *)
(* An event (rule) is the 7-tuple                                          *)
(*   <<date, start_day, end_day, start_hour, end_hour, minute, file>>.     *)
(***************************************************************************)
EXTENDS Integers, Sequences, FiniteSets, TLC

(***************************************************************************)
(* Bounds of the model.                                                    *)
(***************************************************************************)
\* the clock runs over the instants 0..MaxClock
MaxClock == 3
\* number of input lines the operator types
MaxCmds == 2
\* number of sound files that disappear from the sound directory
MaxMissing == 1

(***************************************************************************)
(* Python string and integer primitives.                                   *)
(***************************************************************************)
Digits == <<"0", "1", "2", "3", "4", "5", "6", "7", "8", "9">>

\* a decimal digit, the only kind of digit int() converts
IsDecimal(c) == \E d \in 1..10 : Digits[d] = c

\* characters that are numeric without being decimal digits: superscripts
\* and vulgar fractions
NumericOnly == {"²", "³", "¹", "¼", "½", "¾"}

\* c.isnumeric() for one character
IsDigit(c) == IsDecimal(c) \/ c \in NumericOnly

DigitVal(c) == (CHOOSE d \in 1..10 : Digits[d] = c) - 1

\* str.isnumeric(): not empty and every character numeric
IsNumeric(s) == Len(s) > 0 /\ \A p \in 1..Len(s) : IsDigit(s[p])

\* value of a string of decimal digits with underscores between them
RECURSIVE NatVal(_)
NatVal(s) == IF s = <<>> THEN 0
             ELSE IF s[Len(s)] = "_" THEN NatVal(SubSeq(s, 1, Len(s) - 1))
             ELSE 10 * NatVal(SubSeq(s, 1, Len(s) - 1)) + DigitVal(s[Len(s)])

\* white space that int() strips from both ends: U+0009..U+000D, U+0020,
\* U+0085 and U+00A0
Whitespace == {"\t", "\n", "", "\f", "\r", " ", "", " "}

RECURSIVE LStrip(_)
LStrip(s) == IF s # <<>> /\ s[1] \in Whitespace THEN LStrip(Tail(s)) ELSE s

RECURSIVE RStrip(_)
RStrip(s) == IF s # <<>> /\ s[Len(s)] \in Whitespace
             THEN RStrip(SubSeq(s, 1, Len(s) - 1)) ELSE s

Strip(s) == RStrip(LStrip(s))

\* the digits of an int() literal: decimal digits, with single underscores
\* allowed between two digits
DigitGroups(s) ==
    /\ Len(s) > 0
    /\ \A p \in 1..Len(s) : IsDecimal(s[p]) \/ s[p] = "_"
    /\ s[1] # "_" /\ s[Len(s)] # "_"
    /\ \A p \in 1..(Len(s) - 1) : ~(s[p] = "_" /\ s[p + 1] = "_")

\* int(s) returns a value: white space around an optional sign and digits
IntOk(s) == LET t == Strip(s)
            IN  \/ DigitGroups(t)
                \/ Len(t) > 1 /\ t[1] \in {"-", "+"} /\ DigitGroups(Tail(t))

\* int(s), for IntOk(s); anything else raises ValueError
IntVal(s) == LET t == Strip(s)
             IN  IF t[1] = "-" THEN 0 - NatVal(Tail(t))
                 ELSE IF t[1] = "+" THEN NatVal(Tail(t))
                 ELSE NatVal(t)

\* str(n) for n >= 0
RECURSIVE Str(_)
Str(n) == IF n < 10 THEN <<Digits[n + 1]>>
          ELSE Str(n \div 10) \o <<Digits[(n % 10) + 1]>>

\* s.split(d, maxsplit): maxsplit = -1 splits at every d
RECURSIVE SplitMax(_, _, _)
SplitMax(s, d, k) ==
    IF k = 0 \/ ~ \E p \in 1..Len(s) : s[p] = d THEN <<s>>
    ELSE LET p == CHOOSE q \in 1..Len(s) :
                      s[q] = d /\ \A r \in 1..(q - 1) : s[r] # d
         IN  <<SubSeq(s, 1, p - 1)>> \o
             SplitMax(SubSeq(s, p + 1, Len(s)), d, IF k < 0 THEN k ELSE k - 1)

Split(s, d) == SplitMax(s, d, 0 - 1)

\* the "in" operator for one character
Contains(s, c) == \E p \in 1..Len(s) : s[p] = c

\* the letters with a lower-case form: A..Z and U+00C0..U+00DE without the
\* multiplication sign
UpperCase == <<"A", "B", "C", "D", "E", "F", "G", "H", "I", "J", "K", "L", "M",
               "N", "O", "P", "Q", "R", "S", "T", "U", "V", "W", "X", "Y", "Z",
               "À", "Á", "Â", "Ã", "Ä", "Å", "Æ", "Ç", "È", "É", "Ê", "Ë", "Ì",
               "Í", "Î", "Ï", "Ð", "Ñ", "Ò", "Ó", "Ô", "Õ", "Ö", "Ø", "Ù", "Ú",
               "Û", "Ü", "Ý", "Þ">>
LowerCase == <<"a", "b", "c", "d", "e", "f", "g", "h", "i", "j", "k", "l", "m",
               "n", "o", "p", "q", "r", "s", "t", "u", "v", "w", "x", "y", "z",
               "à", "á", "â", "ã", "ä", "å", "æ", "ç", "è", "é", "ê", "ë", "ì",
               "í", "î", "ï", "ð", "ñ", "ò", "ó", "ô", "õ", "ö", "ø", "ù", "ú",
               "û", "ü", "ý", "þ">>

LowerChar(c) == IF \E p \in 1..Len(UpperCase) : UpperCase[p] = c
                THEN LowerCase[CHOOSE p \in 1..Len(UpperCase) : UpperCase[p] = c]
                ELSE c

Lower(s) == [p \in 1..Len(s) |-> LowerChar(s[p])]

EndsWith(s, suffix) ==
    /\ Len(s) >= Len(suffix)
    /\ SubSeq(s, Len(s) - Len(suffix) + 1, Len(s)) = suffix

(***************************************************************************)
(* Module-level data of Carillon.py.                                       *)
(***************************************************************************)
file_path == <<"/", "h", "o", "m", "e", "/", "d", "a", "v", "e", "/",
               "C", "a", "r", "i", "l", "l", "o", "n", "/">>

Mp3 == <<".", "m", "p", "3">>

StrikeWord == <<"S", "t", "r", "i", "k", "e">>

Hour == <<"H", "o", "u", "r">>
Quarter == <<"Q", "u", "a", "r", "t", "e", "r">>
Half == <<"H", "a", "l", "f">>
ThreeQuarter == <<"T", "h", "r", "e", "e">> \o Quarter
Bell == <<"B", "e", "l", "l">>

\* the default schedule for a tower clock
DefaultSchedule ==
    << <<<<>>, 0, 6, 0, 23, 59, Hour>>,
       <<<<>>, 0, 6, 0, 23, 0, StrikeWord>>,
       <<<<>>, 0, 6, 0, 23, 15, Quarter>>,
       <<<<>>, 0, 6, 0, 23, 30, Half>>,
       <<<<>>, 0, 6, 0, 23, 45, ThreeQuarter>> >>

day_list == << <<"s", "u">>, <<"m", "o">>, <<"t", "u">>, <<"w", "e">>,
               <<"t", "h">>, <<"f", "r">>, <<"s", "a">> >>

\* day_dict.get(w): the weekday number, or None
NoneVal == 0 - 1
day_dict_get(w) == IF \E d \in 1..7 : day_list[d] = w
                   THEN (CHOOSE d \in 1..7 : day_list[d] = w) - 1
                   ELSE NoneVal


(***************************************************************************)
(* The system clock.  An instant is a number k: minute k \div 3 after the  *)
(* start instant, at second SecPoints[k % 3 + 1] of that minute.  The      *)
(* strftime fields the code reads are computed from the calendar.          *)
(***************************************************************************)
SecPoints == <<0, 30, 59>>

NSec == Len(SecPoints)

\* Saturday 25 December 2021, 23:59
StartInstant == [year |-> 2021, month |-> 12, day |-> 25, minuteOfDay |-> 23 * 60 + 59]

LeapYear(y) == (y % 4 = 0 /\ y % 100 # 0) \/ y % 400 = 0

DaysInMonth(y, m) ==
    IF m = 2 THEN (IF LeapYear(y) THEN 29 ELSE 28)
    ELSE IF m \in {4, 6, 9, 11} THEN 30 ELSE 31

NextDay(d) ==
    IF d.day < DaysInMonth(d.year, d.month) THEN [d EXCEPT !.day = @ + 1]
    ELSE IF d.month < 12 THEN [d EXCEPT !.day = 1, !.month = @ + 1]
    ELSE [d EXCEPT !.day = 1, !.month = 1, !.year = @ + 1]

RECURSIVE AddDays(_, _)
AddDays(d, k) == IF k = 0 THEN d ELSE AddDays(NextDay(d), k - 1)

MinuteIndex(k) == StartInstant.minuteOfDay + (k \div NSec)

\* datetime.datetime.now() at instant k
Now(k) ==
    LET d == AddDays([year |-> StartInstant.year, month |-> StartInstant.month,
                      day |-> StartInstant.day], MinuteIndex(k) \div 1440)
    IN  [year |-> d.year, month |-> d.month, day |-> d.day,
         hour |-> (MinuteIndex(k) % 1440) \div 60,
         minute |-> MinuteIndex(k) % 60,
         second |-> SecPoints[(k % NSec) + 1]]

Pad2(v) == IF v < 10 THEN <<"0">> \o Str(v) ELSE Str(v)

\* strftime("%x") in the C locale Python starts in: mm/dd/yy
StrfX(t) == Pad2(t.month) \o <<"/">> \o Pad2(t.day) \o <<"/">> \o Pad2(t.year % 100)

\* int(strftime("%w")): Sunday is 0
StrfW(t) ==
    LET off == <<0, 3, 2, 5, 0, 3, 5, 1, 4, 6, 2, 4>>
        y == IF t.month < 3 THEN t.year - 1 ELSE t.year
    IN  (y + (y \div 4) - (y \div 100) + (y \div 400) + off[t.month] + t.day) % 7

\* int(strftime("%H")), int(strftime("%M")), and the string strftime("%S")
StrfH(t) == NatVal(Pad2(t.hour))
StrfM(t) == NatVal(Pad2(t.minute))
StrfS(t) == Pad2(t.second)

(***************************************************************************)
(* The sound directory: the files playsound() and open() find.             *)
(***************************************************************************)
StrikeFile(h) == file_path \o StrikeWord \o Str(h) \o Mp3

Installed ==
    {file_path \o nm \o Mp3 : nm \in {Hour, Quarter, Half, ThreeQuarter, Bell}}
    \cup {StrikeFile(h) : h \in 1..12}

\* the directories above the sound files, each as its list of names
NonEmpty(c) == c # <<>>
Directories ==
    LET names == SelectSeq(Split(file_path, "/"), NonEmpty)
    IN  {SubSeq(names, 1, k) : k \in 0..Len(names)}

\* the result of a walk that met a name that is not a directory
NoEntry == << <<>> >>

\* open(name) resolves an absolute path name by name from the root: an
\* empty name and "." stay in the directory, ".." goes to its parent (the
\* root is its own parent), and every name but the last must be a directory
RECURSIVE Walk(_, _)
Walk(dir, names) ==
    IF names = <<>> THEN dir
    ELSE IF dir \notin Directories THEN NoEntry
    ELSE IF Head(names) = <<>> \/ Head(names) = <<".">>
    THEN Walk(dir, Tail(names))
    ELSE IF Head(names) = <<".", ".">>
    THEN Walk(SubSeq(dir, 1, Len(dir) - 1), Tail(names))
    ELSE Walk(Append(dir, Head(names)), Tail(names))

Resolve(f) == Walk(<<>>, Split(f, "/"))

\* the place of every installed file
FileAt == [g \in Installed |-> Resolve(g)]

\* the files that may be removed while the program runs: one that is played
\* by name and one that is played as a strike
Removable == {file_path \o Hour \o Mp3, StrikeFile(12)}

(***************************************************************************)
(* The tests of playout()'s scan, one per if statement, on an event r and  *)
(* a clock reading t: TRUE means "continue" (the event is not played).     *)
(* A day test reads its field twice, before and after it reads the clock.  *)
(***************************************************************************)
\* the first operand of the three day tests: the test is in force
HasDate(r) == r[1] # <<>>
HasStartDay(r) == r[2] < 8
HasEndDay(r) == r[3] < 8

\* the comparisons with the clock reading
OtherDate(r, t) == StrfX(t) # r[1]
BeforeDay(r, t) == StrfW(t) < r[2]
AfterDay(r, t) == StrfW(t) > r[3]
LaterHour(r, t) == StrfH(t) < r[4]
EarlierHour(r, t) == StrfH(t) > r[5]
OtherMinute(r, t) == StrfM(t) # r[6]

\* the three day tests on one event and one clock reading
NotToday(r, t) == HasDate(r) /\ OtherDate(r, t)
BeforeDays(r, t) == HasStartDay(r) /\ BeforeDay(r, t)
AfterDays(r, t) == HasEndDay(r) /\ AfterDay(r, t)

\* hour of the twelve-hour strike
StrikeCount(t) == IF StrfH(t) % 12 = 0 THEN 12 ELSE StrfH(t) % 12

\* the name playout() hands to playsound() for a file event
PlayName(r) == file_path \o r[7] \o Mp3

\* list.pop() without its index: the last element goes
RemoveLast(s, k) == SubSeq(s, 1, Len(s) - 1)

\* list.pop(k) and list[k] = e on a 0-based index inside the list
RemoveAt(s, k) == SubSeq(s, 1, k) \o SubSeq(s, k + 2, Len(s))
ReplaceAt(s, k, e) == [s EXCEPT ![k + 1] = e]

\* Python's index rule for list[k] and list.pop(k): a negative k counts from
\* the end; outside the list it raises IndexError
PyIndex(s, k) == IF k < 0 THEN k + Len(s) ELSE k
IndexError(s, k) == PyIndex(s, k) < 0 \/ PyIndex(s, k) >= Len(s)

(***************************************************************************)
(* State.                                                                  *)
(***************************************************************************)
VARIABLES
    schedule,   \* the shared list of events
    missing,    \* installed sound files that have been removed
    clock,      \* the current instant
    \* playout(): position and locals
    pc, it, i, n, hour, playing, wake,
    tnow,       \* the clock reading of the test being made, 0 outside one
    fname,      \* the file name built for playsound(), <<>> outside the call
    \* show_schedule() called by playout(): range length, row, branch taken
    showN, showJ, showDated,
    \* main(): position and locals
    epc, command, event, ncmd,
    \* show_schedule() called by main()
    eShowN, eShowJ, eShowDated,
    \* history of the current tick, read by the properties only
    snap,       \* the schedule when the scan started
    evald,      \* the events the scan has evaluated, in order
    seen,       \* the <<field, value>> pairs read from the current event
    held,       \* the events stored at position i since it became current
    edited,     \* the editor has acted since the scan started
    tickAt,     \* the instant at which the wait loop was last left, or None
    dueAt,      \* the instant of the minute test that cleared the event, 0
                \* when none is awaiting its play
    plays,      \* <<position, event, minute>> of the plays started so far
    cur         \* the event the scan last read at position i, <<>> when
                \* none is being evaluated or recovered

pvars == <<pc, it, i, n, hour, playing, wake, tnow, fname,
          showN, showJ, showDated>>
evars == <<epc, command, event, ncmd, eShowN, eShowJ, eShowDated>>
hvars == <<snap, evald, seen, held, edited>>
h2vars == <<tickAt, dueAt, plays, cur>>
vars == <<schedule, missing, clock, pvars, evars, hvars, h2vars>>

\* open(f) and playsound(f) find the file that the name f resolves to; the
\* name of an installed file resolves to that file and to no other
Exists(f) ==
    IF f \in Installed THEN f \notin missing
    ELSE LET found == Resolve(f)
         IN  \E g \in Installed \ missing : FileAt[g] = found

\* positions of playout() at which schedule[i] is being evaluated
EvalPcs == {"date", "datenow", "datecmp", "startday", "startdaynow",
            "startdaycmp", "endday", "enddaynow", "enddaycmp",
            "starthour", "starthourcmp", "endhour", "endhourcmp",
            "minute", "minutecmp", "strike", "strikehour", "playstrike",
            "playfile", "playopen"}

\* the events position i holds after a change of the schedule to s
HeldAfter(s) ==
    IF pc \in EvalPcs
       /\ i >= 0 /\ i < Len(s)
    THEN held \cup {s[i + 1]} ELSE held

Init ==
    /\ schedule = DefaultSchedule
    /\ missing = {}
    /\ clock = 0
    /\ pc = "wait" /\ it = 0 /\ i = NoneVal /\ n = 0 /\ hour = 0
    /\ playing = <<>> /\ wake = 0 /\ tnow = 0 /\ fname = <<>>
    /\ showN = 0 /\ showJ = 0 /\ showDated = FALSE
    /\ epc = "show" /\ command = <<>> /\ event = <<>> /\ ncmd = 0
    /\ eShowN = 0 /\ eShowJ = 0 /\ eShowDated = FALSE
    /\ snap = <<>> /\ evald = <<>> /\ seen = {} /\ held = {} /\ edited = FALSE
    /\ tickAt = NoneVal /\ dueAt = 0 /\ plays = {} /\ cur = <<>>

(***************************************************************************)
(* The environment: time passes, a sound file disappears.                  *)
(***************************************************************************)
Tick ==
    /\ clock < MaxClock
    /\ clock' = clock + 1
    /\ UNCHANGED <<schedule, missing, pvars, evars, hvars, h2vars>>

RemoveFile ==
    /\ Cardinality(missing) < MaxMissing
    /\ \E f \in Removable \ missing : missing' = missing \cup {f}
    /\ UNCHANGED <<schedule, clock, pvars, evars, hvars, h2vars>>

(***************************************************************************)
(* show_schedule(): the rows it prints raise IndexError when the list has  *)
(* shrunk under it, or when a hard-date event (weekdays 8) has taken the   *)
(* place of the weekday event whose branch was taken.                      *)
(***************************************************************************)
ShowHeadRaises(j) == j >= Len(schedule)

ShowRowRaises(j, dated) ==
    \/ j >= Len(schedule)
    \/ ~dated /\ (IndexError(day_list, schedule[j + 1][2])
                  \/ IndexError(day_list, schedule[j + 1][3]))

(***************************************************************************)
(* playout()                                                               *)
(***************************************************************************)
\* while strftime("%S") != "00": pass
WaitMinute ==
    /\ pc = "wait"
    /\ StrfS(Now(clock)) = <<"0", "0">>
    /\ pc' = "scan"
    /\ tickAt' = clock
    /\ UNCHANGED <<tnow, fname,
                   schedule, missing, clock, it, i, n, hour, playing, wake,
                   showN, showJ, showDated, evars, hvars,
                   dueAt, plays, cur>>

\* for i in range(0, len(schedule)): the range is built once
StartScan ==
    /\ pc = "scan"
    /\ n' = Len(schedule) /\ it' = 0
    /\ pc' = "for"
    /\ snap' = schedule /\ evald' = <<>> /\ seen' = {} /\ held' = {}
    /\ edited' = FALSE
    /\ UNCHANGED <<tnow, fname,
                   schedule, missing, clock, i, hour, playing, wake,
                   showN, showJ, showDated, evars, h2vars>>

\* the for statement takes the next index, or the loop ends
ForEvent ==
    /\ pc = "for"
    /\ IF it < n
       THEN /\ i' = it /\ it' = it + 1
            /\ pc' = "date"
            /\ seen' = {}
            /\ held' = IF it < Len(schedule) THEN {schedule[it + 1]} ELSE {}
       ELSE /\ pc' = "sleep"
            /\ UNCHANGED <<i, it, seen, held>>
    /\ cur' = <<>> /\ dueAt' = 0
    /\ UNCHANGED <<tnow, fname,
                   schedule, missing, clock, n, hour, playing, wake,
                   showN, showJ, showDated, evars, snap, evald, edited,
                   tickAt, plays>>

\* the event at position i, and the clock reading taken for the test
Row == schedule[i + 1]
Reading == Now(tnow)

\* a read of schedule[i][fld] and the branch on it: to yes when test holds
\* (of the event read and of the clock reading taken for the test), to no
\* otherwise.  schedule[i] raises IndexError when the list has shrunk.
Read(here, fld, test, yes, no) ==
    /\ pc = here
    /\ IF IndexError(schedule, i)
       THEN /\ pc' = "report"
            /\ dueAt' = 0
            /\ UNCHANGED <<seen, evald, cur>>
       ELSE /\ seen' = seen \cup {<<fld, schedule[i + 1][fld + 1]>>}
            /\ evald' = IF here = "date" THEN Append(evald, schedule[i + 1])
                        ELSE evald
            /\ cur' = schedule[i + 1]
            /\ pc' = IF test THEN yes ELSE no
            /\ dueAt' = IF here = "minutecmp" /\ pc' = no THEN tnow ELSE dueAt
    /\ tnow' = 0
    /\ UNCHANGED <<schedule, missing, clock, it, i, n, hour, playing, wake,
                   fname, showN, showJ, showDated, evars, snap, held, edited,
                   tickAt, plays>>

\* datetime.datetime.now() of one test
ReadNow(here, there) ==
    /\ pc = here
    /\ tnow' = clock
    /\ pc' = there
    /\ UNCHANGED <<schedule, missing, clock, it, i, n, hour, playing, wake,
                   fname, showN, showJ, showDated, evars, hvars, h2vars>>

\* if schedule[i][0] != "" and now().strftime("%x") != schedule[i][0]:
CheckDate ==
    \/ Read("date", 0, HasDate(Row), "datenow", "startday")
    \/ ReadNow("datenow", "datecmp")
    \/ Read("datecmp", 0, OtherDate(Row, Reading), "for", "startday")

\* if schedule[i][1] < 8 and int(now().strftime("%w")) < schedule[i][1]:
CheckStartDay ==
    \/ Read("startday", 1, HasStartDay(Row), "startdaynow", "endday")
    \/ ReadNow("startdaynow", "startdaycmp")
    \/ Read("startdaycmp", 1, BeforeDay(Row, Reading), "for", "endday")

\* if schedule[i][2] < 8 and int(now().strftime("%w")) > schedule[i][2]:
CheckEndDay ==
    \/ Read("endday", 2, HasEndDay(Row), "enddaynow", "starthour")
    \/ ReadNow("enddaynow", "enddaycmp")
    \/ Read("enddaycmp", 2, AfterDay(Row, Reading), "for", "starthour")

\* if int(now().strftime("%H")) < schedule[i][3]:
CheckStartHour ==
    \/ ReadNow("starthour", "starthourcmp")
    \/ Read("starthourcmp", 3, LaterHour(Row, Reading), "for", "endhour")

\* if int(now().strftime("%H")) > schedule[i][4]:
CheckEndHour ==
    \/ ReadNow("endhour", "endhourcmp")
    \/ Read("endhourcmp", 4, EarlierHour(Row, Reading), "for", "minute")

\* if int(now().strftime("%M")) != schedule[i][5]:
CheckMinute ==
    \/ ReadNow("minute", "minutecmp")
    \/ Read("minutecmp", 5, OtherMinute(Row, Reading), "for", "strike")

\* if schedule[i][6] == "Strike":
IsStrike(r) == r[7] = StrikeWord
TestStrike == Read("strike", 6, IsStrike(Row), "strikehour", "playfile")

\* hour = int(strftime("%H")) % 12; if hour == 0: hour = 12
StrikeHour ==
    /\ pc = "strikehour"
    /\ hour' = StrikeCount(Now(clock))
    /\ pc' = "playstrike"
    /\ UNCHANGED <<tnow, fname,
                   schedule, missing, clock, it, i, n, playing, wake,
                   showN, showJ, showDated, evars, hvars, h2vars>>

\* playsound(f): raises when f cannot be played, else blocks while it plays
Play(f) ==
    /\ dueAt' = 0
    /\ IF Exists(f)
       THEN /\ playing' = f /\ pc' = "playing"
            /\ plays' = plays \cup {<<i, cur', MinuteIndex(clock)>>}
       ELSE pc' = "report" /\ UNCHANGED <<playing, plays>>

\* playsound(file_path + "Strike" + str(hour) + ".mp3")
PlayStrike ==
    /\ pc = "playstrike"
    /\ cur' = cur
    /\ Play(StrikeFile(hour))
    /\ UNCHANGED <<tnow, fname,
                   schedule, missing, clock, it, i, n, hour, wake,
                   showN, showJ, showDated, evars, hvars,
                   tickAt>>

\* playsound(file_path + schedule[i][6] + ".mp3"): the argument is built
\* from the event read, then playsound() opens the file of that name
PlayFile ==
    \/ /\ pc = "playfile"
       /\ IF IndexError(schedule, i)
          THEN /\ pc' = "report" /\ dueAt' = 0
               /\ UNCHANGED <<seen, cur, fname>>
          ELSE /\ seen' = seen \cup {<<6, schedule[i + 1][7]>>}
               /\ cur' = schedule[i + 1]
               /\ fname' = PlayName(schedule[i + 1])
               /\ pc' = "playopen"
               /\ UNCHANGED dueAt
       /\ UNCHANGED <<schedule, missing, clock, it, i, n, hour, playing, wake,
                      tnow, showN, showJ, showDated, evars, snap, evald, held,
                      edited, tickAt, plays>>
    \/ /\ pc = "playopen"
       /\ cur' = cur
       /\ Play(fname)
       /\ fname' = <<>>
       /\ UNCHANGED <<schedule, missing, clock, it, i, n, hour, wake, tnow,
                      showN, showJ, showDated, evars, hvars, tickAt>>

\* playsound returns control only when play is done
PlayReturns ==
    /\ pc = "playing"
    /\ playing' = <<>>
    /\ pc' = "for"
    /\ UNCHANGED <<tnow, fname,
                   schedule, missing, clock, it, i, n, hour, wake,
                   showN, showJ, showDated, evars, hvars, h2vars>>

\* except: print("Event ", i+1, schedule[i]); an IndexError raised inside the
\* handler is caught by nothing and ends the thread
ReportEvent ==
    /\ pc = "report"
    /\ pc' = IF IndexError(schedule, i) THEN "dead" ELSE "showstart"
    /\ UNCHANGED <<tnow, fname,
                   schedule, missing, clock, it, i, n, hour, playing, wake,
                   showN, showJ, showDated, evars, hvars, h2vars>>

\* show_schedule() in the handler: for i in range(0, len(schedule))
ReportShowStart ==
    /\ pc = "showstart"
    /\ showN' = Len(schedule) /\ showJ' = 0
    /\ pc' = "showhead"
    /\ UNCHANGED <<tnow, fname,
                   schedule, missing, clock, it, i, n, hour, playing, wake,
                   showDated, evars, hvars, h2vars>>

\* if schedule[i][0] != "": chooses the row's first column
ReportShowHead ==
    /\ pc = "showhead"
    /\ IF showJ >= showN THEN pc' = "pop" /\ UNCHANGED showDated
       ELSE IF ShowHeadRaises(showJ) THEN pc' = "dead" /\ UNCHANGED showDated
       ELSE /\ showDated' = (schedule[showJ + 1][1] # <<>>)
            /\ pc' = "showrow"
    /\ UNCHANGED <<tnow, fname,
                   schedule, missing, clock, it, i, n, hour, playing, wake,
                   showN, showJ, evars, hvars, h2vars>>

\* the prints of one row.  The head has chosen the branch; of the reads
\* that follow, a weekday read raises on a hard-date event (weekdays 8) and
\* any read raises once the list has shrunk, so the row raises exactly when
\* one step taken at the moment of the read that decides it would.
ReportShowRow ==
    /\ pc = "showrow"
    /\ IF ShowRowRaises(showJ, showDated) THEN pc' = "dead" /\ UNCHANGED showJ
       ELSE showJ' = showJ + 1 /\ pc' = "showhead"
    /\ UNCHANGED <<tnow, fname,
                   schedule, missing, clock, it, i, n, hour, playing, wake,
                   showN, showDated, evars, hvars, h2vars>>

\* schedule.pop(i)
DeleteEvent ==
    /\ pc = "pop"
    /\ IF IndexError(schedule, i)
       THEN pc' = "dead" /\ UNCHANGED schedule
       ELSE schedule' = RemoveAt(schedule, PyIndex(schedule, i)) /\ pc' = "sleep"
    /\ cur' = <<>>
    /\ UNCHANGED <<tnow, fname,
                   missing, clock, it, i, n, hour, playing, wake,
                   showN, showJ, showDated, evars, hvars,
                   tickAt, dueAt, plays>>

\* a sleep of no length: the thread goes on at the instant of the call
WakeNow(k) == k

\* the instant at which time.sleep(59 - s), called at instant k, returns at
\* the earliest
WakeInstant(k) ==
    LET secs(c) == 60 * (c \div NSec) + SecPoints[(c % NSec) + 1]
        due == secs(k) + (59 - NatVal(StrfS(Now(k))))
    IN  CHOOSE c \in k..(k + NSec) :
            secs(c) >= due /\ \A b \in k..(c - 1) : secs(b) < due

\* time.sleep(59 - int(strftime("%S")))
Sleep ==
    /\ pc = "sleep"
    /\ wake' = WakeInstant(clock)
    /\ pc' = "sleeping"
    /\ UNCHANGED <<tnow, fname,
                   schedule, missing, clock, it, i, n, hour, playing,
                   showN, showJ, showDated, evars, hvars, h2vars>>

WakeUp ==
    /\ pc = "sleeping"
    /\ clock >= wake
    /\ pc' = "wait"
    /\ UNCHANGED <<tnow, fname,
                   schedule, missing, clock, it, i, n, hour, playing, wake,
                   showN, showJ, showDated, evars, hvars, h2vars>>

Playout ==
    \/ WaitMinute \/ StartScan \/ ForEvent
    \/ CheckDate \/ CheckStartDay \/ CheckEndDay
    \/ CheckStartHour \/ CheckEndHour \/ CheckMinute
    \/ TestStrike \/ StrikeHour \/ PlayStrike \/ PlayFile \/ PlayReturns
    \/ ReportEvent \/ ReportShowStart \/ ReportShowHead \/ ReportShowRow
    \/ DeleteEvent \/ Sleep \/ WakeUp

(***************************************************************************)
(* main(): parsing and validation of one input line.  Each operator gives  *)
(* a record whose kind is "ok", "error" (a message is printed and the      *)
(* inner loop is left with break) or "raise" (an exception, caught by the  *)
(* except clause, which prints and prompts again).                         *)
(***************************************************************************)
\* the second field: a hard date mm/dd/yy, a weekday or a weekday range
ParseDay(f) ==
    LET bad(k) == [kind |-> k, date |-> <<>>, start_day |-> 0, end_day |-> 0]
    IN
    IF Contains(f, "/")
    THEN IF Len(f) # 8 THEN bad("error")
         ELSE LET parts == Split(f, "/") IN
              IF Len(parts) < 3 \/ \E k \in 1..3 : ~IntOk(parts[k])
              THEN bad("raise")
              ELSE LET month == IntVal(parts[1])
                       day == IntVal(parts[2])
                       year == IntVal(parts[3])
                   IN  IF month < 0 \/ month > 12 THEN bad("error")
                       ELSE IF day < 0 \/ day > 31 THEN bad("error")
                       ELSE IF year < 21 THEN bad("error")
                       ELSE [kind |-> "ok", date |-> f,
                             start_day |-> 8, end_day |-> 8]
    ELSE LET days == Split(f, "-")
             start_day == day_dict_get(days[1])
             end_day == IF Len(days) = 2 THEN day_dict_get(days[2])
                        ELSE start_day
         IN  IF Len(days) > 2 THEN bad("error")
             ELSE IF start_day = NoneVal \/ end_day = NoneVal THEN bad("error")
             ELSE [kind |-> "ok", date |-> <<>>,
                   start_day |-> start_day, end_day |-> end_day]

\* the third field: an hour or an hour range.  A field that is numeric
\* without being decimal passes isnumeric() and makes int() raise.  An end
\* hour outside 0..23 prints its message and goes on: that test has no break.
ParseHours(f) ==
    LET bad(k) == [kind |-> k, start_hour |-> 0, end_hour |-> 0]
        parts == Split(f, "-")
        start_hour == parts[1]
        end_hour == IF Len(parts) = 2 THEN parts[2] ELSE start_hour
    IN  IF Len(parts) > 2 THEN bad("error")
        ELSE IF ~IsNumeric(start_hour) THEN bad("error")
        ELSE IF ~IntOk(start_hour) THEN bad("raise")
        ELSE IF IntVal(start_hour) < 0 \/ IntVal(start_hour) > 23 THEN bad("error")
        ELSE IF ~IsNumeric(end_hour) THEN bad("error")
        ELSE IF ~IntOk(end_hour) THEN bad("raise")
        ELSE [kind |-> "ok", start_hour |-> IntVal(start_hour),
              end_hour |-> IntVal(end_hour)]

\* the fourth field: minute.isnumeric is the method, which is true, so
\* int(minute) is always called
ParseMinute(f) ==
    IF ~IntOk(f) THEN [kind |-> "raise", minute |-> 0]
    ELSE IF IntVal(f) < 0 \/ IntVal(f) > 59 THEN [kind |-> "error", minute |-> 0]
    ELSE [kind |-> "ok", minute |-> IntVal(f)]

\* the name the editor opens for a file that is not the strike keyword
OpenName(file) ==
    IF EndsWith(Lower(file), Mp3) THEN file_path \o file
    ELSE file_path \o file \o Mp3

\* the fifth field: the twelve strike files, or the named file, are opened.
\* A missing strike file prints its message and leaves the for loop only.
CheckSound(file) ==
    IF Lower(file) = Lower(StrikeWord) THEN "ok"
    ELSE IF Exists(OpenName(file)) THEN "ok"
    ELSE "error"

\* the whole line: what main() does with it
Parse(c) ==
    LET f == Split(c, " ")
        res(k, ev) == [kind |-> k, event |-> ev]
    IN
    IF f[1] = <<"?">> THEN res("help", <<>>)
    ELSE IF f[1] = <<>> THEN res("list", <<>>)
    ELSE IF ~IsNumeric(f[1]) THEN res("error", <<>>)
    ELSE IF ~IntOk(f[1]) THEN res("raise", <<>>)
    ELSE IF Len(f) = 1 THEN res("delete", <<>>)
    ELSE IF Len(f) < 5 THEN res("error", <<>>)
    ELSE LET d == ParseDay(f[2]) IN
         IF d.kind # "ok" THEN res(d.kind, <<>>)
    ELSE LET h == ParseHours(f[3]) IN
         IF h.kind # "ok" THEN res(h.kind, <<>>)
    ELSE LET m == ParseMinute(f[4]) IN
         IF m.kind # "ok" THEN res(m.kind, <<>>)
    ELSE LET file == SplitMax(c, " ", 4)[5] IN
         IF CheckSound(file) # "ok" THEN res("error", <<>>)
    ELSE res("store",
             <<d.date, d.start_day, d.end_day,
               h.start_hour, h.end_hour, m.minute, file>>)

(***************************************************************************)
(* The lines the operator types.                                           *)
(***************************************************************************)
\* "5 sa 23 59 Bell"
CmdReplaceLast == <<"5", " ", "s", "a", " ", "2", "3", " ", "5", "9", " ",
    "B", "e", "l", "l">>
\* "1"
CmdDeleteFirst == <<"1">>
\* "0"
CmdDeleteZero == <<"0">>
\* "9"
CmdDeleteNone == <<"9">>
\* "6 12/26/21 0-23 0 Strike"
CmdAppendDate == <<"6", " ", "1", "2", "/", "2", "6", "/", "2", "1", " ",
    "0", "-", "2", "3", " ", "0", " ", "S", "t", "r", "i", "k", "e">>
\* "6 su 5-24 0 Bell"
CmdEndHour == <<"6", " ", "s", "u", " ", "5", "-", "2", "4", " ", "0", " ",
    "B", "e", "l", "l">>
\* ""
CmdList == <<>>
\* "?"
CmdHelp == <<"?">>
\* "x"
CmdNoNumber == <<"x">>
\* "6 su 5 x Bell"
CmdMinuteWord == <<"6", " ", "s", "u", " ", "5", " ", "x", " ", "B", "e",
    "l", "l">>

\* "2 mo-fr 8-17 30 Bell"
CmdReplaceSecond == <<"2", " ", "m", "o", "-", "f", "r", " ", "8", "-", "1",
    "7", " ", "3", "0", " ", "B", "e", "l", "l">>
\* "9 su 5 0 Bell"
CmdAppendFar == <<"9", " ", "s", "u", " ", "5", " ", "0", " ", "B", "e",
    "l", "l">>
\* "0 su 5 0 Bell"
CmdInsertZero == <<"0", " ", "s", "u", " ", "5", " ", "0", " ", "B", "e",
    "l", "l">>
\* "6 su 5 0 strike"
CmdStrikeLower == <<"6", " ", "s", "u", " ", "5", " ", "0", " ", "s", "t",
    "r", "i", "k", "e">>
\* "6 su 5 0 Bell.mp3"
CmdBellMp3 == <<"6", " ", "s", "u", " ", "5", " ", "0", " ", "B", "e", "l",
    "l", ".", "m", "p", "3">>
\* "6 su 24 0 Bell"
CmdStartHour == <<"6", " ", "s", "u", " ", "2", "4", " ", "0", " ", "B",
    "e", "l", "l">>
\* "6 su 5 60 Bell"
CmdMinute == <<"6", " ", "s", "u", " ", "5", " ", "6", "0", " ", "B", "e",
    "l", "l">>
\* "6 xx 5 0 Bell"
CmdWeekday == <<"6", " ", "x", "x", " ", "5", " ", "0", " ", "B", "e", "l",
    "l">>
\* "6 13/01/21 5 0 Bell"
CmdMonth == <<"6", " ", "1", "3", "/", "0", "1", "/", "2", "1", " ", "5",
    " ", "0", " ", "B", "e", "l", "l">>
\* "6 1/1/21 5 0 Bell"
CmdShortDate == <<"6", " ", "1", "/", "1", "/", "2", "1", " ", "5", " ",
    "0", " ", "B", "e", "l", "l">>
\* "6 su 5 0 Gong"
CmdNoFile == <<"6", " ", "s", "u", " ", "5", " ", "0", " ", "G", "o", "n",
    "g">>
\* "6 su 5"
CmdFewFields == <<"6", " ", "s", "u", " ", "5">>
\* "6 su 5 1_0 Bell"
CmdUnderscoreMinute == <<"6", " ", "s", "u", " ", "5", " ", "1", "_", "0",
    " ", "B", "e", "l", "l">>
\* "6 su 5 <TAB>7 Bell"
CmdTabMinute == <<"6", " ", "s", "u", " ", "5", " ", "\t", "7", " ", "B",
    "e", "l", "l">>
\* "6 1_1/1/21 5 0 Bell"
CmdUnderscoreDate == <<"6", " ", "1", "_", "1", "/", "1", "/", "2", "1",
    " ", "5", " ", "0", " ", "B", "e", "l", "l">>
\* "²"
CmdSuperscript == <<"²">>
\* "6 su ² 0 Bell"
CmdSuperHour == <<"6", " ", "s", "u", " ", "²", " ", "0", " ", "B", "e",
    "l", "l">>
\* "6 su 5-² 0 Bell"
CmdSuperEndHour == <<"6", " ", "s", "u", " ", "5", "-", "²", " ", "0", " ",
    "B", "e", "l", "l">>
\* "6 su 5 0 STRIKÉ"
CmdStrikeAccent == <<"6", " ", "s", "u", " ", "5", " ", "0", " ", "S", "T",
    "R", "I", "K", "É">>
\* "6 12/26/21 0-23 59 Bell"
CmdAppendSunday == <<"6", " ", "1", "2", "/", "2", "6", "/", "2", "1", " ",
    "0", "-", "2", "3", " ", "5", "9", " ", "B", "e", "l", "l">>
\* "6 su 5 0 ./Bell"
CmdDotPath == <<"6", " ", "s", "u", " ", "5", " ", "0", " ", ".", "/",
    "B", "e", "l", "l">>

\* "6 su 5 0 x/../Bell"
CmdNoDirectory == <<"6", " ", "s", "u", " ", "5", " ", "0", " ", "x", "/",
    ".", ".", "/", "B", "e", "l", "l">>

Commands ==
    {CmdReplaceLast, CmdDeleteFirst, CmdDeleteZero,
     CmdDeleteNone, CmdAppendDate, CmdEndHour,
     CmdList, CmdHelp, CmdNoNumber,
     CmdMinuteWord, CmdReplaceSecond, CmdAppendFar,
     CmdInsertZero, CmdStrikeLower, CmdBellMp3,
     CmdStartHour, CmdMinute, CmdWeekday,
     CmdMonth, CmdShortDate, CmdNoFile,
     CmdFewFields, CmdUnderscoreMinute, CmdTabMinute,
     CmdUnderscoreDate, CmdSuperscript, CmdSuperHour,
     CmdSuperEndHour, CmdStrikeAccent, CmdAppendSunday,
     CmdDotPath, CmdNoDirectory}

(***************************************************************************)
(* main(): the editor loop.  show_schedule() is called at the top of the   *)
(* outer loop, outside the try ("show"), and for an empty line, inside the *)
(* try ("list").                                                           *)
(***************************************************************************)
\* for i in range(0, len(schedule)) of show_schedule()
EditorShowStart(here, head) ==
    /\ epc = here
    /\ eShowN' = Len(schedule) /\ eShowJ' = 0
    /\ epc' = head
    /\ UNCHANGED <<schedule, missing, clock, pvars, event, command, ncmd,
                   eShowDated, hvars, h2vars>>

\* the next index of the range, and if schedule[i][0] != "": which chooses
\* the row's first column
EditorShowHead(head, row, done, raised) ==
    /\ epc = head
    /\ IF eShowJ >= eShowN THEN epc' = done /\ UNCHANGED eShowDated
       ELSE IF ShowHeadRaises(eShowJ) THEN epc' = raised /\ UNCHANGED eShowDated
       ELSE /\ eShowDated' = (schedule[eShowJ + 1][1] # <<>>)
            /\ epc' = row
    /\ UNCHANGED <<schedule, missing, clock, pvars, event, command, ncmd,
                   eShowN, eShowJ, hvars, h2vars>>

\* the prints of one row.  playout()'s pop may have put another event, or
\* none, at the index since the head was read: a weekday read raises on a
\* hard-date event (weekdays 8) and any read raises once the list has
\* shrunk, so the row raises exactly when one step taken at the moment of
\* the read that decides it would.
EditorShowRow(row, head, raised) ==
    /\ epc = row
    /\ IF ShowRowRaises(eShowJ, eShowDated)
       THEN epc' = raised /\ UNCHANGED eShowJ
       ELSE eShowJ' = eShowJ + 1 /\ epc' = head
    /\ UNCHANGED <<schedule, missing, clock, pvars, event, command, ncmd,
                   eShowN, eShowDated, hvars, h2vars>>

\* line 56: an exception there is outside the try and ends main()
MainShowStart == EditorShowStart("show", "showhead")
MainShowHead == EditorShowHead("showhead", "showrow", "prompt", "dead")
MainShowRow == EditorShowRow("showrow", "showhead", "dead")

\* line 68: an exception is caught and the prompt is printed again; a
\* complete listing is followed by break
ListShowStart == EditorShowStart("list", "listhead")
ListShowHead == EditorShowHead("listhead", "listrow", "show", "prompt")
ListShowRow == EditorShowRow("listrow", "listhead", "prompt")

\* int(command.split(" ")[0]), for a line that begins with a number
LineNumber(c) == IntVal(Split(c, " ")[1])

\* command = input(), for a line main() does not store: "?", the empty
\* line, a line with an error message, a line that raises
Input(c) ==
    /\ epc = "prompt"
    /\ ncmd < MaxCmds
    /\ Parse(c).kind \in {"help", "list", "error", "raise"}
    /\ ncmd' = ncmd + 1
    /\ command' = c
    /\ epc' = CASE Parse(c).kind = "help" -> "show"
                [] Parse(c).kind = "list" -> "list"
                [] Parse(c).kind = "error" -> "show"
                [] Parse(c).kind = "raise" -> "prompt"
    /\ edited' = TRUE
    /\ UNCHANGED <<schedule, missing, clock, pvars, event,
                   eShowN, eShowJ, eShowDated, snap, evald, seen, held, h2vars>>

\* list.pop(k) where the editor calls it: nothing when the list is empty, and
\* an IndexError is caught and reported
DeleteAt(s, k) ==
    IF Len(s) > 0 /\ ~IndexError(s, k) THEN RemoveAt(s, PyIndex(s, k)) ELSE s

\* a line number alone: schedule.pop(line_number - 1)
Delete(c) ==
    /\ epc = "prompt"
    /\ ncmd < MaxCmds
    /\ Parse(c).kind = "delete"
    /\ ncmd' = ncmd + 1
    /\ command' = c
    /\ schedule' = DeleteAt(schedule, LineNumber(c) - 1)
    /\ held' = HeldAfter(schedule')
    /\ epc' = "show"
    /\ edited' = TRUE
    /\ UNCHANGED <<missing, clock, pvars, event,
                   eShowN, eShowJ, eShowDated, snap, evald, seen, h2vars>>

\* a validated line: the event is built
Accept(c) ==
    /\ epc = "prompt"
    /\ ncmd < MaxCmds
    /\ Parse(c).kind = "store"
    /\ ncmd' = ncmd + 1
    /\ command' = c
    /\ event' = Parse(c).event
    /\ epc' = "test"
    /\ edited' = TRUE
    /\ UNCHANGED <<schedule, missing, clock, pvars,
                   eShowN, eShowJ, eShowDated, snap, evald, seen, held, h2vars>>

\* if int(command.split(" ")[0]) - 1 >= len(schedule):
StoreTest ==
    /\ epc = "test"
    /\ epc' = IF LineNumber(command) - 1 >= Len(schedule)
              THEN "append" ELSE "setitem"
    /\ edited' = TRUE
    /\ UNCHANGED <<schedule, missing, clock, pvars, event, command, ncmd,
                   eShowN, eShowJ, eShowDated, snap, evald, seen, held, h2vars>>

\* schedule.append(event)
StoreAppend ==
    /\ epc = "append"
    /\ schedule' = Append(schedule, event)
    /\ held' = HeldAfter(schedule')
    /\ epc' = "prompt"
    /\ edited' = TRUE
    /\ UNCHANGED <<missing, clock, pvars, event, command, ncmd,
                   eShowN, eShowJ, eShowDated, snap, evald, seen, h2vars>>

\* list[k] = e where the editor does it: an IndexError is caught by the
\* except clause and the line is discarded
SetItem(s, k, e) ==
    IF IndexError(s, k) THEN s ELSE ReplaceAt(s, PyIndex(s, k), e)

\* schedule[int(command.split(" ")[0]) - 1] = event
StoreSetItem ==
    /\ epc = "setitem"
    /\ schedule' = SetItem(schedule, LineNumber(command) - 1, event)
    /\ held' = HeldAfter(schedule')
    /\ epc' = "prompt"
    /\ edited' = TRUE
    /\ UNCHANGED <<missing, clock, pvars, event, command, ncmd,
                   eShowN, eShowJ, eShowDated, snap, evald, seen, h2vars>>

\* the editor, for an operator who types lines of the set cmds
Editor(cmds) ==
    \/ MainShowStart \/ MainShowHead \/ MainShowRow
    \/ ListShowStart \/ ListShowHead \/ ListShowRow
    \/ \E c \in cmds : Input(c) \/ Delete(c) \/ Accept(c)
    \/ StoreTest \/ StoreAppend \/ StoreSetItem

\* the lines typed while the playout thread is observed
TickCommands == {CmdReplaceLast, CmdDeleteFirst, CmdAppendSunday, CmdList}

Next == Tick \/ RemoveFile \/ Playout \/ Editor(TickCommands)

Spec == Init /\ [][Next]_vars

(***************************************************************************)
(* The editor alone: the operator's lines against a schedule the playout   *)
(* thread leaves alone, for the contract of the editor's commands.         *)
(***************************************************************************)
EditorInit ==
    /\ schedule \in {SubSeq(DefaultSchedule, 1, k) : k \in 0..Len(DefaultSchedule)}
    /\ missing \in {m \in SUBSET {file_path \o Bell \o Mp3, StrikeFile(12)} :
                        Cardinality(m) <= MaxMissing}
    /\ clock = 0
    /\ pc = "wait" /\ it = 0 /\ i = NoneVal /\ n = 0 /\ hour = 0
    /\ playing = <<>> /\ wake = 0 /\ tnow = 0 /\ fname = <<>>
    /\ showN = 0 /\ showJ = 0 /\ showDated = FALSE
    /\ epc = "show" /\ command = <<>> /\ event = <<>> /\ ncmd = 0
    /\ eShowN = 0 /\ eShowJ = 0 /\ eShowDated = FALSE
    /\ snap = <<>> /\ evald = <<>> /\ seen = {} /\ held = {} /\ edited = FALSE
    /\ tickAt = NoneVal /\ dueAt = 0 /\ plays = {} /\ cur = <<>>

EditorNext == Editor(Commands)

EditorSpec == EditorInit /\ [][EditorNext]_vars

\* the scan plays event r when all six tests read the clock as t
DueAt(r, t) ==
    /\ ~NotToday(r, t) /\ ~BeforeDays(r, t) /\ ~AfterDays(r, t)
    /\ ~LaterHour(r, t) /\ ~EarlierHour(r, t) /\ ~OtherMinute(r, t)

(***************************************************************************)
(* The playout thread alone: time passes and sound files disappear while   *)
(* it scans a schedule of two events that the editor leaves alone.         *)
(***************************************************************************)
\* the instants go up to this one: 23:59, 00:00 and 00:01
MaxPlayClock == 8

\* the dates of the start instant, a Saturday, and of the Sunday after it
Dec25 == <<"1", "2", "/", "2", "5", "/", "2", "1">>
Dec26 == <<"1", "2", "/", "2", "6", "/", "2", "1">>

PlayRules ==
    {<<<<>>, 0, 6, 0, 23, 59, Hour>>,
     <<<<>>, 0, 6, 0, 23, 59, StrikeWord>>,
     <<<<>>, 0, 6, 0, 23, 0, StrikeWord>>,
     <<<<>>, 6, 6, 0, 23, 0, Bell>>,
     <<<<>>, 0, 6, 23, 23, 0, Bell>>,
     <<Dec25, 8, 8, 0, 23, 0, Bell>>,
     <<Dec26, 8, 8, 0, 23, 1, Bell>>}

PlayInit ==
    /\ schedule \in {<<a, b>> : a \in PlayRules, b \in PlayRules}
    /\ missing = {}
    /\ clock = 0
    /\ pc = "wait" /\ it = 0 /\ i = NoneVal /\ n = 0 /\ hour = 0
    /\ playing = <<>> /\ wake = 0 /\ tnow = 0 /\ fname = <<>>
    /\ showN = 0 /\ showJ = 0 /\ showDated = FALSE
    /\ epc = "prompt" /\ command = <<>> /\ event = <<>> /\ ncmd = 0
    /\ eShowN = 0 /\ eShowJ = 0 /\ eShowDated = FALSE
    /\ snap = <<>> /\ evald = <<>> /\ seen = {} /\ held = {} /\ edited = FALSE
    /\ tickAt = NoneVal /\ dueAt = 0 /\ plays = {} /\ cur = <<>>

\* time passes, up to the last instant of the observation
PlayTick ==
    /\ clock < MaxPlayClock
    /\ clock' = clock + 1
    /\ UNCHANGED <<schedule, missing, pvars, evars, hvars, h2vars>>

PlayNext == PlayTick \/ RemoveFile \/ Playout

PlaySpec == PlayInit /\ [][PlayNext]_vars

(***************************************************************************)
(* From the editor to the playout thread: the schedule holds one event     *)
(* that main() has validated and stored, every sound file stays in place,  *)
(* and the scan evaluates it at an instant at which it is due.             *)
(***************************************************************************)
\* the events main() builds from the lines it accepts
StoredEvents == {Parse(c).event : c \in {d \in Commands : Parse(d).kind = "store"}}

\* the instants, second 0, of the days and hours the observation covers
SoundDays == 7
SoundClocks ==
    {0} \cup {NSec * (1 + 1440 * d + 60 * h + m) :
                 d \in 0..(SoundDays - 1), h \in {0, 5, 8, 23}, m \in {0, 30, 59}}

SoundInit ==
    /\ missing = {}
    /\ schedule \in {<<e>> : e \in StoredEvents}
    /\ clock \in {c \in SoundClocks : DueAt(schedule[1], Now(c))}
    /\ pc = "wait" /\ it = 0 /\ i = NoneVal /\ n = 0 /\ hour = 0
    /\ playing = <<>> /\ wake = 0 /\ tnow = 0 /\ fname = <<>>
    /\ showN = 0 /\ showJ = 0 /\ showDated = FALSE
    /\ epc = "prompt" /\ command = <<>> /\ event = schedule[1] /\ ncmd = 0
    /\ eShowN = 0 /\ eShowJ = 0 /\ eShowDated = FALSE
    /\ snap = <<>> /\ evald = <<>> /\ seen = {} /\ held = {} /\ edited = FALSE
    /\ tickAt = NoneVal /\ dueAt = 0 /\ plays = {} /\ cur = <<>>

SoundNext ==
    \/ WaitMinute \/ StartScan \/ ForEvent
    \/ CheckDate \/ CheckStartDay \/ CheckEndDay
    \/ CheckStartHour \/ CheckEndHour \/ CheckMinute
    \/ TestStrike \/ StrikeHour \/ PlayStrike \/ PlayFile \/ PlayReturns
    \/ ReportEvent \/ ReportShowStart \/ ReportShowHead \/ ReportShowRow
    \/ DeleteEvent

SoundSpec == SoundInit /\ [][SoundNext]_vars

(***************************************************************************)
(* Properties.                                                             *)
(***************************************************************************)
\* positions of playout() at which schedule[i] is being evaluated or played
ScanPcs == EvalPcs \cup {"playing"}

\* positions of playout() inside the except handler
HandlerPcs == {"report", "showstart", "showhead", "showrow", "pop"}

IsPrefix(s, t) == Len(s) <= Len(t) /\ \A k \in 1..Len(s) : s[k] = t[k]

\* s is t with the element at position p (1-based) taken out
IsWithout(s, t, p) ==
    /\ p \in 1..Len(t)
    /\ Len(s) = Len(t) - 1
    /\ \A k \in 1..Len(s) : s[k] = IF k < p THEN t[k] ELSE t[k + 1]

\* C1: the playout loop never terminates: whatever the editor does during a
\* scan and whichever play calls fail, the thread is never ended, also when
\* the recovery addresses a position that no longer exists.
C1_PlayoutNeverEnds == pc # "dead"

\* C2: the events a scan evaluates are the events of the schedule as it was
\* when the scan started, in position order: none is skipped, none is
\* evaluated twice and none is an event stored after the scan started.
C2_ScanIsSnapshot == IsPrefix(evald, snap)

\* C3: all the fields read while one event is evaluated and played belong to
\* one event value that position i has held during that evaluation.
C3_NoTornRule ==
    (pc \in ScanPcs /\ seen # {}) =>
        \E r \in held : \A p \in seen : r[p[1] + 1] = p[2]

\* C4: when play fails for the matched event at position i and the editor
\* does nothing during that tick, the handler removes exactly that event (the
\* length drops by one, the other events keep their order), the thread is
\* not ended and the loop goes on to its sleep before the next tick.
C4_RecoveryRemovesFailedRule ==
    [][ ~edited' =>
          /\ pc' # "dead"
          /\ (pc \in HandlerPcs /\ pc' \notin HandlerPcs) =>
                /\ pc' = "sleep"
                /\ IsWithout(schedule', snap, i + 1)
                /\ evald[Len(evald)] = snap[i + 1] ]_vars

\* C4 witness: a play failure has been recovered in a tick without any
\* editor step, and the failed event was not the last of the schedule
C4_Witness ==
    /\ pc = "sleep" /\ ~edited
    /\ Len(schedule) = Len(snap) - 1
    /\ i + 1 < Len(snap)

\* C5: after a play failure the scan goes on with the events that follow in
\* the same tick: the loop does not leave the tick for its sleep while an
\* event at a later position is due.
C5_ScanContinuesAfterFailure ==
    [][ (pc = "pop" /\ pc' = "sleep") =>
          \A j \in (i + 1)..Len(schedule') :
              ~DueAt(schedule'[j], Now(clock)) ]_vars

\* the scan has decided to play the event
DecidedDue ==
    pc \in {"strike", "strikehour", "playstrike", "playfile", "playopen",
            "playing"}

\* the step that decides on the event read: the comparison of one of the
\* six tests sends the scan to the next event ("for"), or the last of them
\* clears the event for play ("strike").  The clock reading the decision
\* is taken on is the one of that comparison, tnow.
Decides ==
    /\ pc \in {"datecmp", "startdaycmp", "enddaycmp", "starthourcmp",
               "endhourcmp", "minutecmp"}
    /\ pc' \in {"for", "strike"}

HourAndMinuteMatch(r, t) == t.hour >= r[4] /\ t.hour <= r[5] /\ t.minute = r[6]

\* the calendar date a hard date mm/dd/yy names is the date of t
OnFixedDate(r, t) ==
    LET parts == Split(r[1], "/")
    IN  /\ IntVal(parts[1]) = t.month
        /\ IntVal(parts[2]) = t.day
        /\ IntVal(parts[3]) = t.year % 100

\* C6: an event without a hard date and with weekday range [a,b], a <= b, is
\* decided due at timestamp t if and only if t's weekday is in [a,b], t's
\* hour is in [start_hour, end_hour] and t's minute is the event's minute.
C6_WeekdayRuleDueIff ==
    [][ (Decides /\ cur'[1] = <<>> /\ cur'[2] \in 0..6 /\ cur'[3] \in 0..6
           /\ cur'[2] <= cur'[3]) =>
          ((pc' = "strike") <=>
              /\ StrfW(Now(tnow)) >= cur'[2]
              /\ StrfW(Now(tnow)) <= cur'[3]
              /\ HourAndMinuteMatch(cur', Now(tnow))) ]_vars

\* C7: an event with a hard date is decided due only on that calendar date,
\* whatever its weekday fields hold; with the weekday fields at 8 it is
\* due on that date exactly when the hour is in range and the minute is
\* equal, and on any other date it is not due.
C7_FixedDateRuleDue ==
    [][ (Decides /\ cur'[1] # <<>>) =>
          /\ pc' = "strike" => OnFixedDate(cur', Now(tnow))
          /\ (cur'[2] = 8 /\ cur'[3] = 8) =>
                ((pc' = "strike") <=>
                    /\ OnFixedDate(cur', Now(tnow))
                    /\ HourAndMinuteMatch(cur', Now(tnow))) ]_vars

\* a number as the operator's manual writes it: decimal digits only
IsNumber(f) == Len(f) > 0 /\ \A p \in 1..Len(f) : IsDecimal(f[p])

\* the line has a line number and the five fields of an event
IsRuleLine(c) == IsNumber(Split(c, " ")[1]) /\ Len(Split(c, " ")) >= 5

\* C8: an insert/replace of event r at line pos >= 1 replaces the event at
\* pos when pos <= Len (the length is unchanged), appends r as the last event
\* when pos > Len (the length grows by one), leaves r at index pos-1 when
\* pos <= Len+1, and never fails.
C8_UpsertContract ==
    [][ (epc \in {"append", "setitem"} /\ epc' # epc
           /\ LineNumber(command) >= 1) =>
          LET pos == LineNumber(command)
              len == Len(schedule)
          IN  /\ epc' = "prompt"
              /\ pos <= len => schedule' = [schedule EXCEPT ![pos] = event]
              /\ pos > len => schedule' = Append(schedule, event)
              /\ pos <= len + 1 => schedule'[pos] = event ]_vars

\* C9: a delete command whose line number addresses an event removes that
\* event and shortens the schedule by one; a delete command whose number is
\* outside 1..Len, or on an empty schedule, leaves the schedule unchanged.
C9_DeleteContract ==
    [][ (epc = "prompt" /\ ncmd' = ncmd + 1 /\ Parse(command').kind = "delete") =>
          LET pos == LineNumber(command')
          IN  IF pos \in 1..Len(schedule)
              THEN IsWithout(schedule', schedule, pos)
              ELSE schedule' = schedule ]_vars

\* what the operator's manual calls invalid in a line of five fields
BadDayField(f) ==
    IF Contains(f, "/")
    THEN LET parts == Split(f, "/")
         IN  \/ Len(f) # 8 \/ Len(parts) # 3
             \/ \E k \in 1..Len(parts) : ~IsNumber(parts[k])
             \/ NatVal(parts[1]) \notin 1..12 \/ NatVal(parts[2]) \notin 1..31
    ELSE LET days == Split(f, "-")
         IN  Len(days) > 2 \/ \E k \in 1..Len(days) : day_dict_get(days[k]) = NoneVal

BadHourField(f) ==
    LET parts == Split(f, "-")
    IN  \/ Len(parts) > 2
        \/ \E k \in 1..Len(parts) : ~IsNumber(parts[k]) \/ NatVal(parts[k]) > 23

BadMinuteField(f) == ~IsNumber(f) \/ NatVal(f) > 59

BadSoundField(file) ==
    IF Lower(file) = Lower(StrikeWord)
    THEN \E h \in 1..12 : ~Exists(StrikeFile(h))
    ELSE ~Exists(OpenName(file))

FailsValidation(c) ==
    /\ IsRuleLine(c)
    /\ \/ BadDayField(Split(c, " ")[2])
       \/ BadHourField(Split(c, " ")[3])
       \/ BadMinuteField(Split(c, " ")[4])
       \/ BadSoundField(SplitMax(c, " ", 4)[5])

\* C10: a line whose input fails validation (start or end hour, minute,
\* date, weekday symbol, sound file or a numbered strike file) is discarded:
\* no step taken for that line changes the schedule.
C10_InvalidInputDiscarded ==
    [][ FailsValidation(command') => schedule' = schedule ]_vars

\* the constraints the operator's manual puts on the fields of an event
WellFormed(r) ==
    /\ r[4] \in 0..23 /\ r[5] \in 0..23
    /\ r[6] \in 0..59
    /\ r[2] \in (0..6) \cup {8} /\ r[3] \in (0..6) \cup {8}
    /\ (r[1] # <<>>) = (r[2] = 8 /\ r[3] = 8)
    /\ (r[1] = <<>>) = (r[2] \in 0..6 /\ r[3] \in 0..6)

\* C11: every event of the schedule has start and end hour in 0..23, minute
\* in 0..59, weekdays in 0..6 or 8, and either a hard date (weekdays 8) or a
\* weekday range (no date), never both and never neither.
C11_RulesWellFormed == \A k \in 1..Len(schedule) : WellFormed(schedule[k])

\* C12: the editor loop never terminates: no input line and no removal of
\* an event by playout()'s handler, also while the editor lists the
\* schedule, ends main().
C12_EditorNeverEnds == epc # "dead"

\* C13: every event of one tick is evaluated against the one timestamp at
\* which the wait loop was left: an event that playout() starts to play is
\* due at that timestamp, so its minute is the tick's minute.
C13_OneTimestampPerTick ==
    [][ (pc # "playing" /\ pc' = "playing") => DueAt(cur', Now(tickAt)) ]_vars

\* the strike number of hour h of the day
Twelve(h) == IF h % 12 = 0 THEN 12 ELSE h % 12

\* C14: the strike number is the twelve-hour form (0 and 12 give 12, 13
\* gives 1) of the hour of the timestamp at which the event was found due,
\* the clock reading of the test that cleared it.
C14_StrikeHourOfDueTime ==
    [][ (pc = "strikehour" /\ pc' = "playstrike") =>
          /\ hour' \in 1..12
          /\ hour' = Twelve(Now(dueAt).hour) ]_vars

\* C15: an event is played only in a minute in which it is due: the clock
\* reading that clears an event for play is one at which the event is due
\* (date or weekdays, hours and minute), and it is played in that minute or
\* not at all.
C15_PlayedOnlyWhenDue ==
    [][ (pc # "playing" /\ pc' = "playing") =>
          /\ playing = <<>>
          /\ DueAt(cur', Now(dueAt)) ]_vars

\* the values the scan has read from field k of the event under evaluation
Readings(k) == {p[2] : p \in {q \in seen : q[1] = k}}


\* the files main() opened when it validated the sound field of event e
ValidatedFiles(e) ==
    IF Lower(e[7]) = Lower(StrikeWord) THEN {StrikeFile(h) : h \in 1..12}
    ELSE {OpenName(e[7])}

\* C17: the sound playout() plays for a stored event is one main() validated
\* for it: the strike keyword in any letter case gives a numbered strike
\* file, a file name gets ".mp3" only when it has none; with the sound files
\* in place the play of an accepted event does not fail.
C17_PlaysWhatWasValidated ==
    [][ (pc \in {"playstrike", "playopen"} /\ pc' # pc) =>
          /\ pc' = "playing"
          /\ playing' \in ValidatedFiles(cur') ]_vars

\* C18: the event playout()'s handler removes is the event whose test or
\* play failed, also when the editor has changed the schedule since the
\* failure; no other event is removed by the handler.
C18_RecoveryRemovesTheFailedRule ==
    [][ (pc = "pop" /\ pc' = "sleep") =>
          /\ cur # <<>>
          /\ schedule[i + 1] = cur
          /\ IsWithout(schedule', schedule, i + 1) ]_vars

\* C19: the wait loop is left only at second 0 and at most once in any
\* minute of the clock, and no event that keeps its position is played twice
\* in one minute of the clock, however long the plays last.
C19_OneScanPerMinute ==
    [][ /\ (pc = "wait" /\ pc' = "scan") =>
              /\ Now(clock).second = 0
              /\ tickAt # NoneVal => MinuteIndex(clock) > MinuteIndex(tickAt)
        /\ (pc # "playing" /\ pc' = "playing") =>
              <<i, cur', MinuteIndex(clock)>> \notin plays ]_vars

\* C19 witness: an event is being played in a second scan, after a play of
\* the first scan that lasted into the next minute
C19_Witness ==
    /\ pc = "playing"
    /\ tickAt # NoneVal /\ MinuteIndex(tickAt) > MinuteIndex(0) + 1
    /\ \E p \in plays : p[3] = MinuteIndex(0)

\* C20: an insert/replace with line number k changes no event at a position
\* other than k and changes the length of the schedule by at most one, for
\* every line number, 0 and numbers beyond the length included.
C20_UpsertFrame ==
    [][ (epc \in {"append", "setitem"} /\ epc' # epc) =>
          /\ \A p \in 1..Len(schedule) :
                p # LineNumber(command) =>
                    p <= Len(schedule') /\ schedule'[p] = schedule[p]
          /\ Len(schedule') - Len(schedule) \in {0 - 1, 0, 1} ]_vars

=============================================================================
